---------------------------- MODULE Spec2Model ----------------------------
(***************************************************************************)
(* Model of app.py: a Streamlit script holding two session artifacts       *)
(* (summary_text, quiz_text) and two button handlers.  The Generate        *)
(* Summary handler is modelled step by step (temp file, upload, wait loop, *)
(* generation, cleanup, except handler); the Generate Quiz handler is one  *)
(* step.  Every remote call and every local file operation either returns *)
(* or raises.                                                              *)
(***************************************************************************)
EXTENDS Integers, FiniteSets, Sequences, TLC

(* ---- bounds of the model (not program constants) ---- *)
MaxLatency == 1      \* extra seconds one loop iteration may take beyond the sleep
NumVideos == 1       \* distinct files the user can pick
NumTexts == 2        \* distinct non-empty texts the remote model can return

(* ---- program constants ---- *)
SleepSeconds == 5    \* time.sleep(5)
Ceiling == 300       \* if elapsed > 300

None == "None"
Videos == { "video" \o ToString(i) : i \in 1..NumVideos }
Texts == { "" } \cup { "text" \o ToString(i) : i \in 1..NumTexts }
FileStates == { "PROCESSING", "ACTIVE", "FAILED" }

VARIABLES
    uploaded_file,   \* st.file_uploader value: None or a video
    summary_text,    \* st.session_state.summary_text
    quiz_text,       \* st.session_state.quiz_text
    pc,              \* position of the script: "idle" = waiting for the user
    temp_exists,     \* the local file temp_upload_<name> exists
    myfile,          \* None while 'myfile' is unbound, else myfile.state.name
    remote,          \* remote copy: "absent", "stored", "deleted"
    elapsed,         \* time.time() - start_time in whole seconds; the script reads it
                     \* only inside the wait loop, so the model keeps 0 outside it
    msgs,            \* messages shown by the current (or last) action
    hist             \* bookkeeping about the current (or last) action

vars == << uploaded_file, summary_text, quiz_text, pc, temp_exists, myfile,
           remote, elapsed, msgs, hist >>

\* Python truthiness of a session artifact (None and "" are falsy)
Truthy(x) == x # None /\ x # ""

\* bookkeeping at the start of a user action
Fresh(kind, summary, quiz, source, wasCleared) ==
    [ action |-> kind,            \* "none", "summary", "quiz"
      summaryAtStart |-> summary, \* summary_text when the action started
      quizAtStart |-> quiz,       \* quiz_text when the action started
      uploadCalls |-> 0,          \* genai.upload_file calls
      genCalls |-> 0,             \* model.generate_content calls
      deleteCalls |-> 0,          \* genai.delete_file calls
      deleteRaised |-> 0,         \* genai.delete_file calls that raised
      removeCalls |-> 0,          \* os.remove calls
      removeRaised |-> FALSE,     \* the last os.remove call raised
      genReturned |-> FALSE,      \* generate_content returned and the artifact was assigned
      handle |-> FALSE,           \* upload_file returned a handle
      polled |-> FALSE,           \* some status poll returned
      lastPoll |-> None,          \* state returned by the last status poll
      sawProcessingOnly |-> TRUE, \* every status poll so far returned PROCESSING
      sawFailed |-> FALSE,        \* some status poll returned FAILED
      sawReady |-> FALSE,         \* some status poll returned a ready state
      pollAfterExit |-> FALSE,    \* a poll was made after FAILED, ready or the timeout message
      deleteBeforeGen |-> FALSE,  \* delete_file was called before generate_content
      stepAfterFail |-> FALSE,    \* upload, poll or generation attempted after a step raised
      raisedAt |-> None,          \* the step whose exception reached the except clause
      quizSource |-> source,      \* summary_text used by the request that set quiz_text
      cleared |-> wasCleared ]    \* some summary request cleared a quiz that was present

Init ==
    /\ uploaded_file = None
    /\ summary_text = None
    /\ quiz_text = None
    /\ pc = "idle"
    /\ temp_exists = FALSE
    /\ myfile = None
    /\ remote = "absent"
    /\ elapsed = 0
    /\ msgs = {}
    /\ hist = Fresh("none", None, None, None, FALSE)

NewHist(kind) == Fresh(kind, summary_text, quiz_text, hist.quizSource, hist.cleared)

\* the counters of the bookkeeping tell 0, 1, 2 and "more"
Bump(n) == IF n < 3 THEN n + 1 ELSE 3

\* mutant: picking another file drops the summary but not the quiz
SelectFile_DropsSummary(v) ==
    /\ pc = "idle"
    /\ v # uploaded_file
    /\ uploaded_file' = v
    /\ summary_text' = None
    /\ msgs' = {}
    /\ hist' = NewHist("none")
    /\ UNCHANGED << quiz_text, pc, temp_exists, myfile, remote, elapsed >>

(* ---- the user picks or removes the file (a rerun with no button pressed) ---- *)
SelectFile(v) ==
    /\ pc = "idle"
    /\ v # uploaded_file
    /\ uploaded_file' = v
    /\ msgs' = {}
    /\ hist' = NewHist("none")
    /\ UNCHANGED << summary_text, quiz_text, pc, temp_exists, myfile, remote, elapsed >>

\* mutant: line 58 is missing, the quiz survives a new summary request
ClickSummary_KeepsQuiz ==
    /\ pc = "idle"
    /\ uploaded_file # None
    /\ msgs' = {}
    /\ myfile' = None
    /\ remote' = "absent"
    /\ elapsed' = 0
    /\ hist' = NewHist("summary")
    /\ pc' = "write"
    /\ UNCHANGED << uploaded_file, summary_text, quiz_text, temp_exists >>

\* mutant: the request also resets the summary, as it resets the quiz
ClickSummary_ClearsSummary ==
    /\ pc = "idle"
    /\ uploaded_file # None
    /\ quiz_text' = None
    /\ summary_text' = None
    /\ msgs' = {}
    /\ myfile' = None
    /\ remote' = "absent"
    /\ elapsed' = 0
    /\ hist' = [NewHist("summary") EXCEPT !.cleared = @ \/ Truthy(quiz_text)]
    /\ pc' = "write"
    /\ UNCHANGED << uploaded_file, temp_exists >>

(* ---- Generate Summary: button pressed, lines 57-59 ---- *)
ClickSummary ==
    /\ pc = "idle"
    /\ uploaded_file # None
    /\ quiz_text' = None
    /\ msgs' = {}
    /\ myfile' = None
    /\ remote' = "absent"
    /\ elapsed' = 0
    /\ hist' = [NewHist("summary") EXCEPT !.cleared = @ \/ Truthy(quiz_text)]
    /\ pc' = "write"
    /\ UNCHANGED << uploaded_file, summary_text, temp_exists >>

(* ---- lines 62-64: write the temporary file ---- *)
WriteTemp(raises, created) ==
    /\ pc = "write"
    /\ IF raises
         THEN /\ temp_exists' = (temp_exists \/ created)
              /\ hist' = [hist EXCEPT !.raisedAt = "write"]
              /\ pc' = "handler"
         ELSE /\ temp_exists' = TRUE
              /\ hist' = hist
              /\ pc' = "upload"
    /\ UNCHANGED << uploaded_file, summary_text, quiz_text, myfile, remote, elapsed, msgs >>

(* ---- lines 66-72: upload, start the clock ---- *)
Upload(raises, s) ==
    /\ pc = "upload"
    /\ IF raises
         THEN /\ hist' = [hist EXCEPT !.uploadCalls = Bump(@),
                                      !.stepAfterFail = @ \/ hist.raisedAt # None,
                                      !.raisedAt = "upload"]
              /\ pc' = "handler"
              /\ UNCHANGED << myfile, remote, msgs >>
         ELSE /\ myfile' = s
              /\ remote' = "stored"
              /\ msgs' = msgs \cup {"uploaded"}
              /\ hist' = [hist EXCEPT !.uploadCalls = Bump(@),
                                      !.stepAfterFail = @ \/ hist.raisedAt # None,
                                      !.handle = TRUE]
              /\ pc' = "loop"
    /\ elapsed' = 0
    /\ UNCHANGED << uploaded_file, summary_text, quiz_text, temp_exists >>

(* ---- lines 74-84: one iteration of the wait loop, with the ceiling of line 80 ---- *)
PollWith(raises, s, lat, limit) ==
    /\ pc = "loop"
    /\ myfile = "PROCESSING"
    /\ IF raises
         THEN /\ hist' = [hist EXCEPT !.stepAfterFail = @ \/ hist.raisedAt # None,
                                      !.pollAfterExit = @ \/ hist.sawFailed \/ hist.sawReady
                                                          \/ "timeout" \in msgs,
                                      !.raisedAt = "poll"]
              /\ pc' = "handler"
              /\ elapsed' = 0
              /\ UNCHANGED << myfile, msgs >>
         ELSE /\ myfile' = s
              /\ elapsed' = elapsed + SleepSeconds + lat
              /\ hist' = [hist EXCEPT !.stepAfterFail = @ \/ hist.raisedAt # None,
                                      !.pollAfterExit = @ \/ hist.sawFailed \/ hist.sawReady
                                                          \/ "timeout" \in msgs,
                                      !.polled = TRUE,
                                      !.lastPoll = s,
                                      !.sawProcessingOnly = @ /\ s = "PROCESSING",
                                      !.sawFailed = @ \/ s = "FAILED",
                                      !.sawReady = @ \/ s = "ACTIVE"]
              /\ IF elapsed' > limit
                   THEN /\ msgs' = msgs \cup {"timeout"}
                        /\ pc' = "timeout"
                   ELSE /\ msgs' = msgs
                        /\ pc' = "loop"
    /\ UNCHANGED << uploaded_file, summary_text, quiz_text, temp_exists, remote >>

\* mutant: the ceiling is compared in the wrong unit (3000 instead of 300)
Poll_WrongCeiling(raises, s, lat) == PollWith(raises, s, lat, 10 * Ceiling)

Poll(raises, s, lat) == PollWith(raises, s, lat, Ceiling)

(* ---- lines 74, 86-89: the loop condition fails ---- *)
ExitLoop ==
    /\ pc = "loop"
    /\ myfile # "PROCESSING"
    /\ IF myfile = "FAILED"
         THEN /\ msgs' = msgs \cup {"failed"}
              /\ pc' = "failed"
         ELSE /\ msgs' = msgs
              /\ pc' = "generate"
    /\ elapsed' = 0
    /\ UNCHANGED << uploaded_file, summary_text, quiz_text, temp_exists, myfile,
                    remote, hist >>

(* ---- genai.delete_file(myfile.name); os.remove(temp_file_path) and what     ---- *)
(* ---- follows them, as written at lines 82-84, 90-92 and 103-105             ---- *)
CleanupAt(site, deleteRaises, removeRaises, doneMsgs, next) ==
    /\ pc = site
    /\ IF deleteRaises
         THEN /\ hist' = [hist EXCEPT !.deleteCalls = Bump(@),
                                      !.deleteRaised = Bump(@),
                                      !.deleteBeforeGen = @ \/ hist.genCalls = 0,
                                      !.raisedAt = site]
              /\ pc' = "handler"
              /\ UNCHANGED << remote, temp_exists, msgs >>
         ELSE /\ remote' = "deleted"
              /\ IF removeRaises
                   THEN /\ hist' = [hist EXCEPT !.deleteCalls = Bump(@),
                                                !.deleteBeforeGen = @ \/ hist.genCalls = 0,
                                                !.removeCalls = Bump(@),
                                                !.removeRaised = TRUE,
                                                !.raisedAt = site]
                        /\ pc' = "handler"
                        /\ UNCHANGED << temp_exists, msgs >>
                   ELSE /\ hist' = [hist EXCEPT !.deleteCalls = Bump(@),
                                                !.deleteBeforeGen = @ \/ hist.genCalls = 0,
                                                !.removeCalls = Bump(@),
                                                !.removeRaised = FALSE]
                        /\ temp_exists' = FALSE
                        /\ msgs' = msgs \cup doneMsgs
                        /\ pc' = next
    /\ elapsed' = 0
    /\ UNCHANGED << uploaded_file, summary_text, quiz_text, myfile >>

\* lines 82-84: cleanup and st.stop() after the timeout message
TimeoutCleanup(deleteRaises, removeRaises) ==
    CleanupAt("timeout", deleteRaises, removeRaises, {}, "idle")

\* mutant: st.stop() at line 92 is missing, the script goes on to the summary request
FailedCleanup_NoStop(deleteRaises, removeRaises) ==
    CleanupAt("failed", deleteRaises, removeRaises, {}, "generate")

\* lines 90-92: cleanup and st.stop() after the failure message
FailedCleanup(deleteRaises, removeRaises) ==
    CleanupAt("failed", deleteRaises, removeRaises, {}, "idle")

(* ---- lines 95-101: request the summary and store it ---- *)
Generate(raises, t) ==
    /\ pc = "generate"
    /\ IF raises
         THEN /\ hist' = [hist EXCEPT !.genCalls = Bump(@),
                                      !.stepAfterFail = @ \/ hist.raisedAt # None,
                                      !.raisedAt = "generate"]
              /\ pc' = "handler"
              /\ UNCHANGED summary_text
         ELSE /\ summary_text' = t
              /\ hist' = [hist EXCEPT !.genCalls = Bump(@),
                                      !.stepAfterFail = @ \/ hist.raisedAt # None,
                                      !.genReturned = TRUE]
              /\ pc' = "cleanup"
    /\ UNCHANGED << uploaded_file, quiz_text, temp_exists, myfile, remote, elapsed, msgs >>

\* lines 103-105: cleanup and the success message
SuccessCleanup(deleteRaises, removeRaises) ==
    CleanupAt("cleanup", deleteRaises, removeRaises, {"success"}, "idle")

\* mutant: the except clause removes the local file but forgets the remote one
Handler_NoDelete(deleteRaises, removeRaises) ==
    /\ pc = "handler"
    /\ IF temp_exists
         THEN IF removeRaises
                THEN /\ temp_exists' = TRUE
                     /\ msgs' = msgs \cup {"error", "uncaught"}
                ELSE /\ temp_exists' = FALSE
                     /\ msgs' = msgs \cup {"error"}
         ELSE /\ temp_exists' = FALSE
              /\ msgs' = msgs \cup {"error"}
    /\ hist' = [hist EXCEPT
                  !.removeCalls = IF temp_exists THEN Bump(@) ELSE @,
                  !.removeRaised = IF temp_exists THEN removeRaises ELSE @]
    /\ pc' = "idle"
    /\ UNCHANGED << uploaded_file, summary_text, quiz_text, elapsed, myfile, remote >>

\* mutant: after a failed upload the except clause starts the upload again
Handler_Retries(deleteRaises, removeRaises) ==
    /\ pc = "handler"
    /\ msgs' = msgs \cup {"error"}
    /\ IF hist.raisedAt = "upload"
         THEN /\ pc' = "upload"
              /\ UNCHANGED << remote, temp_exists, hist >>
         ELSE /\ remote' = IF myfile # None /\ ~deleteRaises THEN "deleted" ELSE remote
              /\ temp_exists' = (temp_exists /\ removeRaises)
              /\ hist' = [hist EXCEPT
                            !.deleteCalls = IF myfile # None THEN Bump(@) ELSE @,
                            !.deleteRaised = IF myfile # None /\ deleteRaises
                                               THEN Bump(@) ELSE @,
                            !.removeCalls = IF temp_exists THEN Bump(@) ELSE @,
                            !.removeRaised = IF temp_exists THEN removeRaises ELSE @]
              /\ pc' = "idle"
    /\ UNCHANGED << uploaded_file, summary_text, quiz_text, elapsed, myfile >>

(* ---- lines 107-115: except Exception ---- *)
\* deleting a remote file that is already deleted raises; the handler swallows it.
\* an exception of os.remove at line 115 is not caught.
Handler(deleteRaises, removeRaises) ==
    /\ pc = "handler"
    /\ IF myfile # None
         THEN IF deleteRaises \/ remote = "deleted"
                THEN /\ remote' = remote
                     /\ UNCHANGED myfile
                ELSE /\ remote' = "deleted"
                     /\ UNCHANGED myfile
         ELSE UNCHANGED << remote, myfile >>
    /\ IF temp_exists
         THEN IF removeRaises
                THEN /\ temp_exists' = TRUE
                     /\ msgs' = msgs \cup {"error", "uncaught"}
                ELSE /\ temp_exists' = FALSE
                     /\ msgs' = msgs \cup {"error"}
         ELSE /\ temp_exists' = FALSE
              /\ msgs' = msgs \cup {"error"}
    /\ hist' = [hist EXCEPT
                  !.deleteCalls = IF myfile # None THEN Bump(@) ELSE @,
                  !.deleteRaised = IF myfile # None /\ (deleteRaises \/ remote = "deleted")
                                     THEN Bump(@) ELSE @,
                  !.deleteBeforeGen = @ \/ (myfile # None /\ hist.genCalls = 0),
                  !.removeCalls = IF temp_exists THEN Bump(@) ELSE @,
                  !.removeRaised = IF temp_exists THEN removeRaises ELSE @]
    /\ pc' = "idle"
    /\ UNCHANGED << uploaded_file, summary_text, quiz_text, elapsed >>

\* mutant: the quiz button is drawn outside the "if st.session_state.summary_text" block
GenerateQuiz_Ungated(raises, q) ==
    /\ pc = "idle"
    /\ IF raises
         THEN /\ msgs' = {"quizerror"}
              /\ hist' = [NewHist("quiz") EXCEPT !.genCalls = 1, !.raisedAt = "quiz"]
              /\ UNCHANGED quiz_text
         ELSE /\ quiz_text' = q
              /\ msgs' = {}
              /\ hist' = [NewHist("quiz") EXCEPT !.genCalls = 1, !.genReturned = TRUE,
                                                      !.quizSource = summary_text]
    /\ UNCHANGED << uploaded_file, summary_text, pc, temp_exists, myfile, remote, elapsed >>

(* ---- Generate Quiz: lines 118, 162-179 ---- *)
GenerateQuiz(raises, q) ==
    /\ pc = "idle"
    /\ Truthy(summary_text)
    /\ IF raises
         THEN /\ msgs' = {"quizerror"}
              /\ hist' = [NewHist("quiz") EXCEPT !.genCalls = 1, !.raisedAt = "quiz"]
              /\ UNCHANGED quiz_text
         ELSE /\ quiz_text' = q
              /\ msgs' = {}
              /\ hist' = [NewHist("quiz") EXCEPT !.genCalls = 1, !.genReturned = TRUE,
                                                      !.quizSource = summary_text]
    /\ UNCHANGED << uploaded_file, summary_text, pc, temp_exists, myfile, remote, elapsed >>

Next ==
    \/ \E v \in Videos \cup {None} : SelectFile(v)
    \/ ClickSummary
    \/ \E r \in BOOLEAN, c \in BOOLEAN : WriteTemp(r, c)
    \/ \E r \in BOOLEAN, s \in FileStates : Upload(r, s)
    \/ \E r \in BOOLEAN, s \in FileStates, lat \in 0..MaxLatency : Poll(r, s, lat)
    \/ ExitLoop
    \/ \E d \in BOOLEAN, r \in BOOLEAN : TimeoutCleanup(d, r)
    \/ \E d \in BOOLEAN, r \in BOOLEAN : FailedCleanup(d, r)
    \/ \E r \in BOOLEAN, t \in Texts : Generate(r, t)
    \/ \E d \in BOOLEAN, r \in BOOLEAN : SuccessCleanup(d, r)
    \/ \E d \in BOOLEAN, r \in BOOLEAN : Handler(d, r)
    \/ \E r \in BOOLEAN, q \in Texts : GenerateQuiz(r, q)

Spec == Init /\ [][Next]_vars

\* the steps the script takes by itself once a button was pressed: execution is
\* single-threaded and synchronous, so a started handler keeps running
ScriptStep ==
    \/ \E r \in BOOLEAN, c \in BOOLEAN : WriteTemp(r, c)
    \/ \E r \in BOOLEAN, s \in FileStates : Upload(r, s)
    \/ \E r \in BOOLEAN, s \in FileStates, lat \in 0..MaxLatency : Poll(r, s, lat)
    \/ ExitLoop
    \/ \E d \in BOOLEAN, r \in BOOLEAN : TimeoutCleanup(d, r)
    \/ \E d \in BOOLEAN, r \in BOOLEAN : FailedCleanup(d, r)
    \/ \E r \in BOOLEAN, t \in Texts : Generate(r, t)
    \/ \E d \in BOOLEAN, r \in BOOLEAN : SuccessCleanup(d, r)
    \/ \E d \in BOOLEAN, r \in BOOLEAN : Handler(d, r)

FairSpec == Spec /\ WF_vars(ScriptStep)

TypeOK ==
    /\ uploaded_file \in Videos \cup {None}
    /\ summary_text \in Texts \cup {None}
    /\ quiz_text \in Texts \cup {None}
    /\ pc \in {"idle", "write", "upload", "loop", "timeout", "failed", "generate",
               "cleanup", "handler"}
    /\ temp_exists \in BOOLEAN
    /\ myfile \in FileStates \cup {None}
    /\ remote \in {"absent", "stored", "deleted"}
    /\ elapsed \in 0..(Ceiling + SleepSeconds + MaxLatency)
    /\ msgs \subseteq {"uploaded", "timeout", "failed", "success", "error", "uncaught",
                       "quizerror"}

(***************************************************************************)
(* Properties                                                              *)
(***************************************************************************)

\* the last user action was Generate Summary and it has ended
Ended == pc = "idle" /\ hist.action = "summary"

\* C1 (as stated): when a Generate Summary action has ended, on every way it can
\* end, the local temporary file no longer exists and, if the upload returned a
\* handle, the remote file has been deleted.
C1_AllReleased ==
    Ended => /\ ~temp_exists
             /\ hist.handle => remote = "deleted"

\* C1 (amended): when a Generate Summary action has ended, removal of the local
\* file and, if the upload returned a handle, deletion of the remote file have
\* been attempted; the local file is gone unless the last os.remove raised, and
\* the remote file is deleted unless every delete_file call raised.
C1_CleanupAttempted ==
    Ended => /\ temp_exists => hist.removeRaised
             /\ hist.uploadCalls = 1 => hist.removeCalls >= 1
             /\ hist.handle => /\ hist.deleteCalls >= 1
                               /\ remote # "deleted" => hist.deleteRaised = hist.deleteCalls

\* an action that ended in the except clause with both resources released
C1_Witness ==
    /\ Ended
    /\ "error" \in msgs
    /\ hist.handle
    /\ remote = "deleted"
    /\ ~temp_exists

\* C2 (as stated): if every status poll returns PROCESSING, the first poll with
\* elapsed > 300 is the last one, the timeout is signalled, and when the action
\* has ended the remote file and the local file are released.
C2_TimeoutReleases ==
    /\ pc = "loop" => elapsed <= Ceiling
    /\ ~hist.pollAfterExit
    /\ (Ended /\ hist.polled /\ hist.sawProcessingOnly /\ hist.raisedAt # "poll")
          => /\ "timeout" \in msgs
             /\ remote = "deleted"
             /\ ~temp_exists

\* the wait loop is never entered again once elapsed time exceeds the ceiling,
\* and no poll follows the timeout message
C2_LoopBounded ==
    /\ pc = "loop" => elapsed <= Ceiling
    /\ pc = "timeout" => elapsed > Ceiling /\ elapsed <= Ceiling + SleepSeconds + MaxLatency
    /\ ~hist.pollAfterExit

\* an action whose polls all returned PROCESSING signals the timeout and has
\* attempted both releases when it has ended
C2_TimeoutOutcome ==
    (Ended /\ hist.polled /\ hist.sawProcessingOnly /\ hist.raisedAt # "poll")
       => /\ "timeout" \in msgs
          /\ "failed" \notin msgs /\ "success" \notin msgs
          /\ hist.deleteCalls >= 1
          /\ remote # "deleted" => hist.deleteRaised = hist.deleteCalls
          /\ temp_exists => hist.removeRaised

\* C2 (amended): if every status poll returns PROCESSING the wait loop
\* terminates: the first poll with elapsed > 300 is the last poll, the timeout is
\* signalled, and deletion of the remote file and removal of the local file have
\* been attempted by the time the action has ended (each is gone unless its
\* call raised); every started action ends.
C2_TimeoutTerminates ==
    /\ [](C2_LoopBounded /\ C2_TimeoutOutcome)
    /\ (pc # "idle") ~> (pc = "idle")

\* an action that ended by timeout after polls that all returned PROCESSING
C2_Witness ==
    /\ Ended
    /\ hist.polled /\ hist.sawProcessingOnly
    /\ "timeout" \in msgs
    /\ remote = "deleted"
    /\ ~temp_exists

\* C3 (as stated, for actions in which no call raises): if a status poll returns
\* FAILED then no further poll is made in that action, the processing-failure
\* message (not the timeout message, not a summary) is signalled, and the remote
\* file and the local file are released.
C3_FailedPollSignalled ==
    /\ hist.sawFailed => ~hist.pollAfterExit
    /\ (Ended /\ hist.sawFailed /\ hist.raisedAt = None)
          => /\ "failed" \in msgs
             /\ "timeout" \notin msgs
             /\ hist.genCalls = 0
             /\ remote = "deleted"
             /\ ~temp_exists

\* C4 (as stated): if a status poll returns a ready state, summary generation is
\* requested on that handle and the remote file is not deleted before that
\* request has been made.
C4_ReadyProceeds ==
    (hist.action = "summary" /\ hist.sawReady)
       => /\ ~hist.deleteBeforeGen
          /\ pc = "idle" => hist.genCalls >= 1

\* C5: a quiz request is issued, and the quiz artifact set, only when the summary
\* artifact is present and non-empty.
C5_QuizGated ==
    /\ hist.action = "quiz" => Truthy(hist.summaryAtStart)
    /\ quiz_text # None => Truthy(hist.quizSource)

\* a quiz request that returned a quiz
C5_Witness ==
    /\ hist.action = "quiz"
    /\ hist.genReturned
    /\ Truthy(quiz_text)

\* C6: from the moment a Generate Summary action starts, before any upload, poll
\* or generation step and whatever way the action ends, the quiz artifact is
\* empty.
C6_QuizClearedAtStart ==
    (hist.action = "summary") => quiz_text = None

\* a request that has just started (no upload yet) in a session that held a quiz
C6_Witness ==
    /\ pc = "write"
    /\ hist.uploadCalls = 0
    /\ Truthy(hist.quizAtStart)
    /\ quiz_text = None

\* C7 (as stated): after a Generate Summary action has started, the summary held
\* from an earlier request is no longer present; a request that ends in
\* failure, timeout or error leaves the session with no summary.
C7_SummaryCleared ==
    (hist.action = "summary" /\ ~hist.genReturned) => ~Truthy(summary_text)

\* C7 (amended): starting a Generate Summary action leaves the summary artifact
\* as it was; it is replaced only when generate_content returns, so a request
\* that ends before that (failure, timeout, error) leaves the earlier summary in
\* the session.
C7_SummaryKept ==
    (hist.action = "summary" /\ ~hist.genReturned) => summary_text = hist.summaryAtStart

\* a request that ended with the failure message while an earlier summary is held
C7_Witness ==
    /\ Ended
    /\ "failed" \in msgs
    /\ ~hist.genReturned
    /\ Truthy(summary_text)

\* C8 (as stated): in one user action, once a step has failed nothing more is
\* attempted, and upload, generation and deletion of the remote file are each
\* invoked at most once.
C8_EachAtMostOnce ==
    /\ ~hist.stepAfterFail
    /\ hist.uploadCalls <= 1
    /\ hist.genCalls <= 1
    /\ hist.deleteCalls <= 1

\* C8 (amended): in one user action upload and generation are each invoked at
\* most once and no upload, poll or generation follows a step that raised;
\* deletion of the remote file is invoked at most twice, the second time only by
\* the except clause after the first delete_file or the os.remove after it
\* raised.
C8_NoRetries ==
    /\ ~hist.stepAfterFail
    /\ hist.uploadCalls <= 1
    /\ hist.genCalls <= 1
    /\ hist.deleteCalls <= 2
    /\ hist.deleteCalls = 2
          => /\ pc = "idle"
             /\ "error" \in msgs
             /\ hist.raisedAt \in {"timeout", "failed", "cleanup"}

\* an action in which the except clause called delete_file a second time
C8_Witness ==
    /\ Ended
    /\ hist.deleteCalls = 2
    /\ hist.uploadCalls = 1

\* C9 (as stated): a Generate Summary action that reports an error (failure,
\* timeout or "An error occurred") leaves the summary artifact unchanged.
C9_ErrorLeavesSummary ==
    (Ended /\ msgs \cap {"failed", "timeout", "error"} # {})
       => /\ ~hist.genReturned
          /\ summary_text = hist.summaryAtStart

\* C9 (amended): an action that reports the processing failure or the timeout
\* never sets the summary artifact; an action that reports "An error occurred"
\* has set it only if the error was raised by the cleanup after generate_content
\* returned; every other action that set it ends with the success message.
C9_ErrorAfterGeneration ==
    hist.action = "summary"
       => /\ summary_text # hist.summaryAtStart => hist.genReturned
          /\ hist.genReturned
                => /\ "failed" \notin msgs
                   /\ "timeout" \notin msgs
                   /\ "error" \in msgs => hist.raisedAt = "cleanup"
                   /\ (pc = "idle" /\ "error" \notin msgs) => "success" \in msgs

\* an action that replaced the summary and then reported "An error occurred"
C9_Witness ==
    /\ Ended
    /\ hist.genReturned
    /\ "error" \in msgs
    /\ summary_text # hist.summaryAtStart

\* C10: whenever the quiz artifact is present, it was generated from the summary
\* artifact the session holds now.
C10_QuizFromCurrentSummary ==
    Truthy(quiz_text) => hist.quizSource = summary_text

\* a quiz held after an earlier quiz was cleared by a new summary request
C10_Witness ==
    /\ Truthy(quiz_text)
    /\ hist.cleared
    /\ pc = "idle"

=============================================================================
